---------------------------- MODULE Spec2Model ----------------------------
(***************************************************************************)
(* Model of the LMS scan-and-reconcile step (ScanStepScanFiles): the       *)
(* directory walk of process(), the per-file scanAudioFile() and the       *)
(* identity resolvers getOrCreateArtists / getOrCreateRelease /            *)
(* getOrCreateClusters, over a catalog of Tracks, Artists, Releases and    *)
(* Clusters.                                                               *)
(***************************************************************************)
EXTENDS Integers, Sequences, FiniteSets, TLC

(***************************************************************************)
(* Bounds of the model                                                     *)
(***************************************************************************)
\* total number of walker callback invocations explored
MaxCalls == 2
\* walker entries handed to the threads of SpecConc, all together
MaxEntries == 2
\* scanAudioFile calls explored when it is run on its own (SpecScan)
MaxScans == 3
\* scanAudioFile calls explored on the files of SpecTags
MaxTagScans == 2

(***************************************************************************)
(* Value domains                                                           *)
(***************************************************************************)
\* an absent std::optional
None == "none"

Paths == {"p1", "p2"}
\* last-write times, in seconds (toTime_t)
Times == {1, 2}
ScanVersions == {1, 2}

\* cluster types provisioned in the catalog (the scan never creates one)
ClusterTypes == {"genre"}

\* TrackArtistLinkType, in the order scanAudioFile builds the links
LinkTypes ==
    << "Artist", "ReleaseArtist", "Conductor", "Composer", "Lyricist",
       "Mixer", "Performer", "Producer", "Remixer" >>

\* MetaData::Artist
AI(name, mbid, sortName) ==
    [name |-> name, musicBrainzArtistID |-> mbid, sortName |-> sortName]

\* MetaData::Album, wrapped in the optional of MetaData::Track::album
NoAlbum == [present |-> FALSE, name |-> "", musicBrainzAlbumID |-> None]
Album(name, mbid) == [present |-> TRUE, name |-> name, musicBrainzAlbumID |-> mbid]

(***************************************************************************)
(* Catalog store primitives (find-by-MBID, find-by-name, find-by-path).    *)
(* Artists, Releases and Clusters are never removed by the scan, so each   *)
(* table is a sequence and an entity's id is its index; find-by-name       *)
(* returns the matches in id order.  0 is the null pointer.                *)
(***************************************************************************)
RECURSIVE FirstIn(_, _, _)
\* smallest index i >= from of s with P[i], 0 if none; P is a boolean sequence
FirstIn(P, from, n) ==
    IF from > n THEN 0
    ELSE IF P[from] THEN from
    ELSE FirstIn(P, from + 1, n)

\* Artist::find(session, mbid)
ArtistFindByMBID(arts, mbid) ==
    FirstIn([i \in 1..Len(arts) |-> arts[i].mbid = mbid], 1, Len(arts))

\* Artist::find(session, name): the ids of the same-named artists, in id order
ArtistFindByName(arts, name) ==
    {i \in 1..Len(arts) : arts[i].name = name}

\* Release::find(session, mbid)
ReleaseFindByMBID(rels, mbid) ==
    FirstIn([i \in 1..Len(rels) |-> rels[i].mbid = mbid], 1, Len(rels))

\* Release::find(session, name)
ReleaseFindByName(rels, name) ==
    {i \in 1..Len(rels) : rels[i].name = name}

\* ClusterType::find(session, name)
ClusterTypeFind(type) == type \in ClusterTypes

\* ClusterType::getCluster(name)
GetCluster(clus, type, name) ==
    FirstIn([i \in 1..Len(clus) |-> clus[i].type = type /\ clus[i].name = name],
            1, Len(clus))

\* Track::findByPath(session, file): the set of tracks at that path
TrackFindByPath(trks, file) == {t \in trks : t.path = file}

\* Track::findByRecordingMBID(session, mbid)
TrackFindByRecordingMBID(trks, mbid) == {t \in trks : t.recordingMBID = mbid}

(***************************************************************************)
(* Identity resolver: artists                                              *)
(***************************************************************************)
\* createArtist: the new row appended to the table
CreateArtist(artistInfo) ==
    [name |-> artistInfo.name,
     mbid |-> artistInfo.musicBrainzArtistID,
     sortName |-> IF artistInfo.sortName # None THEN artistInfo.sortName
                  ELSE artistInfo.name]

\* mutant: the name of a matched artist is left as it was
UpdateArtistKeepName(artist, artistInfo) ==
    IF artistInfo.sortName # None /\ artistInfo.sortName # artist.sortName
    THEN [artist EXCEPT !.sortName = artistInfo.sortName]
    ELSE artist

\* updateArtistIfNeeded
UpdateArtistIfNeeded(artist, artistInfo) ==
    LET a1 == IF artist.name # artistInfo.name
              THEN [artist EXCEPT !.name = artistInfo.name]
              ELSE artist
    IN  IF artistInfo.sortName # None /\ artistInfo.sortName # a1.sortName
        THEN [a1 EXCEPT !.sortName = artistInfo.sortName]
        ELSE a1

\* mutant: the fallback flag is ignored, MBID-tagged artists are always passed
FallbackArtistNeverTagged(arts, name, allowFallbackOnMBIDEntries) ==
    FirstIn([i \in 1..Len(arts) |-> arts[i].name = name /\ arts[i].mbid = None],
            1, Len(arts))

\* the name-fallback loop of getOrCreateArtists: first same-named artist that
\* is acceptable under allowFallbackOnMBIDEntries, 0 if none
FallbackArtist(arts, name, allowFallbackOnMBIDEntries) ==
    LET same == ArtistFindByName(arts, name)
    IN  FirstIn([i \in 1..Len(arts) |->
                    /\ i \in same
                    /\ (allowFallbackOnMBIDEntries \/ arts[i].mbid = None)],
                1, Len(arts))

\* mutant: a record with an MBID always creates its artist, without the lookup
ResolveArtistNoLookup(arts, artistInfo, allowFallbackOnMBIDEntries) ==
    IF artistInfo.musicBrainzArtistID # None \/ artistInfo.name # ""
    THEN [artists |-> Append(arts, CreateArtist(artistInfo)),
          artist |-> Len(arts) + 1]
    ELSE [artists |-> arts, artist |-> 0]

\* one iteration of the loop of getOrCreateArtists: the table afterwards and
\* the artist pushed to the result (0 when the record contributes nothing)
ResolveArtist(arts, artistInfo, allowFallbackOnMBIDEntries) ==
    IF artistInfo.musicBrainzArtistID # None
    THEN LET found == ArtistFindByMBID(arts, artistInfo.musicBrainzArtistID)
         IN  IF found = 0
             THEN [artists |-> Append(arts, CreateArtist(artistInfo)),
                   artist |-> Len(arts) + 1]
             ELSE [artists |-> [arts EXCEPT ![found] =
                                   UpdateArtistIfNeeded(arts[found], artistInfo)],
                   artist |-> found]
    ELSE IF artistInfo.name # ""
    THEN LET found == FallbackArtist(arts, artistInfo.name, allowFallbackOnMBIDEntries)
         IN  IF found = 0
             THEN [artists |-> Append(arts, CreateArtist(artistInfo)),
                   artist |-> Len(arts) + 1]
             ELSE [artists |-> [arts EXCEPT ![found] =
                                   UpdateArtistIfNeeded(arts[found], artistInfo)],
                   artist |-> found]
    ELSE [artists |-> arts, artist |-> 0]

RECURSIVE GetOrCreateArtistsFrom(_, _, _, _, _)
GetOrCreateArtistsFrom(arts, artistsInfo, allowFallbackOnMBIDEntries, k, acc) ==
    IF k > Len(artistsInfo) THEN [artists |-> arts, result |-> acc]
    ELSE LET r == ResolveArtist(arts, artistsInfo[k], allowFallbackOnMBIDEntries)
         IN  GetOrCreateArtistsFrom(r.artists, artistsInfo,
                                    allowFallbackOnMBIDEntries, k + 1,
                                    IF r.artist = 0 THEN acc
                                    ELSE Append(acc, r.artist))

\* getOrCreateArtists: the artist table afterwards and the returned vector
GetOrCreateArtists(arts, artistsInfo, allowFallbackOnMBIDEntries) ==
    GetOrCreateArtistsFrom(arts, artistsInfo, allowFallbackOnMBIDEntries, 1, << >>)

\* mutant: the name fallback takes the first same-named Release, tagged or
\* not
GetOrCreateReleaseAnyName(rels, album) ==
    IF album.musicBrainzAlbumID # None
    THEN LET found == ReleaseFindByMBID(rels, album.musicBrainzAlbumID)
         IN  IF found = 0
             THEN [releases |-> Append(rels, [name |-> album.name,
                                              mbid |-> album.musicBrainzAlbumID]),
                   release |-> Len(rels) + 1]
             ELSE IF rels[found].name # album.name
             THEN [releases |-> [rels EXCEPT ![found].name = album.name],
                   release |-> found]
             ELSE [releases |-> rels, release |-> found]
    ELSE IF album.name # ""
    THEN LET same == ReleaseFindByName(rels, album.name)
             found == FirstIn([i \in 1..Len(rels) |-> i \in same], 1, Len(rels))
         IN  IF found = 0
             THEN [releases |-> Append(rels, [name |-> album.name, mbid |-> None]),
                   release |-> Len(rels) + 1]
             ELSE [releases |-> rels, release |-> found]
    ELSE [releases |-> rels, release |-> 0]

(***************************************************************************)
(* Identity resolver: release and clusters                                 *)
(***************************************************************************)
\* getOrCreateRelease: the release table afterwards and the returned pointer
GetOrCreateRelease(rels, album) ==
    IF album.musicBrainzAlbumID # None
    THEN LET found == ReleaseFindByMBID(rels, album.musicBrainzAlbumID)
         IN  IF found = 0
             THEN [releases |-> Append(rels, [name |-> album.name,
                                              mbid |-> album.musicBrainzAlbumID]),
                   release |-> Len(rels) + 1]
             ELSE IF rels[found].name # album.name
             THEN [releases |-> [rels EXCEPT ![found].name = album.name],
                   release |-> found]
             ELSE [releases |-> rels, release |-> found]
    ELSE IF album.name # ""
    THEN LET same == ReleaseFindByName(rels, album.name)
             found == FirstIn([i \in 1..Len(rels) |->
                                  i \in same /\ rels[i].mbid = None],
                              1, Len(rels))
         IN  IF found = 0
             THEN [releases |-> Append(rels, [name |-> album.name, mbid |-> None]),
                   release |-> Len(rels) + 1]
             ELSE [releases |-> rels, release |-> found]
    ELSE [releases |-> rels, release |-> 0]

RECURSIVE ClusterNamesAlwaysCreate(_, _, _, _, _)
\* mutant: every name creates its Cluster, without the lookup
ClusterNamesAlwaysCreate(clus, type, names, k, acc) ==
    IF k > Len(names) THEN [clusters |-> clus, result |-> acc]
    ELSE ClusterNamesAlwaysCreate(Append(clus, [type |-> type, name |-> names[k]]),
                                  type, names, k + 1, Append(acc, Len(clus) + 1))

RECURSIVE ClusterNamesFrom(_, _, _, _, _)
\* inner loop of getOrCreateClusters, over the names of one known type
ClusterNamesFrom(clus, type, names, k, acc) ==
    IF k > Len(names) THEN [clusters |-> clus, result |-> acc]
    ELSE LET found == GetCluster(clus, type, names[k])
         IN  IF found = 0
             THEN ClusterNamesFrom(Append(clus, [type |-> type, name |-> names[k]]),
                                   type, names, k + 1, Append(acc, Len(clus) + 1))
             ELSE ClusterNamesFrom(clus, type, names, k + 1, Append(acc, found))

RECURSIVE GetOrCreateClustersFrom(_, _, _, _)
GetOrCreateClustersFrom(clus, clustersNames, k, acc) ==
    IF k > Len(clustersNames) THEN [clusters |-> clus, result |-> acc]
    ELSE IF ~ClusterTypeFind(clustersNames[k].type)
    THEN GetOrCreateClustersFrom(clus, clustersNames, k + 1, acc)
    ELSE LET r == ClusterNamesFrom(clus, clustersNames[k].type,
                                   clustersNames[k].names, 1, acc)
         IN  GetOrCreateClustersFrom(r.clusters, clustersNames, k + 1, r.result)

\* getOrCreateClusters: the cluster table afterwards and the returned vector
GetOrCreateClusters(clus, clustersNames) ==
    GetOrCreateClustersFrom(clus, clustersNames, 1, << >>)

(***************************************************************************)
(* Parsed metadata records (MetaData::Track) the parser may return         *)
(***************************************************************************)
BaseInfo ==
    [recordingMBID |-> None, audioStreams |-> 1, duration |-> 1, title |-> "T",
     artists |-> << >>, albumArtists |-> << >>, conductorArtists |-> << >>,
     composerArtists |-> << >>, lyricistArtists |-> << >>, mixerArtists |-> << >>,
     performerArtists |-> << >>, producerArtists |-> << >>,
     remixerArtists |-> << >>, album |-> NoAlbum, clusters |-> << >>]

TrackInfos ==
    { \* a fully tagged file: artist with MBID, named album, one genre
      [BaseInfo EXCEPT !.recordingMBID = "R1",
                       !.artists = << AI("A", "M1", None) >>,
                       !.album = Album("X", None),
                       !.clusters = << [type |-> "genre", names |-> << "Rock" >>] >>],
      \* the same artist MBID under another spelling, album with MBID, no title
      [BaseInfo EXCEPT !.recordingMBID = "R1", !.title = "",
                       !.artists = << AI("B", "M1", "S") >>,
                       !.album = Album("X", "RM1")],
      \* untagged main artist and a performer of the same name
      [BaseInfo EXCEPT !.artists = << AI("A", None, None) >>,
                       !.performerArtists =
                           << [role |-> "vocals", artists |-> << AI("A", None, None) >>] >>],
      \* a performer only, a nameless artist, a cluster of an unknown type
      [BaseInfo EXCEPT !.artists = << AI("", None, None) >>,
                       !.performerArtists =
                           << [role |-> "vocals", artists |-> << AI("A", None, "S") >>] >>,
                       !.clusters = << [type |-> "mood", names |-> << "Calm" >>] >>],
      \* no audio stream
      [BaseInfo EXCEPT !.audioStreams = 0],
      \* a recording MBID, audio streams, zero duration
      [BaseInfo EXCEPT !.recordingMBID = "R1", !.duration = 0],
      \* a recording MBID and neither audio stream nor duration
      [BaseInfo EXCEPT !.recordingMBID = "R1", !.audioStreams = 0, !.duration = 0] }

\* a file credited in every role: the tagged artist A and the untagged B,
\* a nameless composer, the untagged spelling of A as mixer, two performer
\* roles
CreditsInfo ==
    [BaseInfo EXCEPT
        !.artists = << AI("A", "M1", None) >>,
        !.albumArtists = << AI("B", None, None) >>,
        !.conductorArtists = << AI("B", None, None) >>,
        !.composerArtists = << AI("", None, None), AI("A", "M1", None) >>,
        !.lyricistArtists = << AI("B", None, None) >>,
        !.mixerArtists = << AI("A", None, None) >>,
        !.performerArtists =
            << [role |-> "vocals", artists |-> << AI("B", None, None) >>],
               [role |-> "guitar", artists |-> << AI("A", "M1", None) >>] >>,
        !.producerArtists = << AI("B", None, None) >>,
        !.remixerArtists = << AI("A", "M1", None) >>]

(***************************************************************************)
(* The catalog: db = [tracks, artists, releases, clusters, nextTrackId].   *)
(* A Track row is [id, path, lastWriteTime, scanVersion, recordingMBID,    *)
(* name, duration, release, clusters, artistLinks]; its ArtistLinks are    *)
(* owned by it and are removed with it.                                    *)
(***************************************************************************)
EmptyDb ==
    [tracks |-> {}, artists |-> << >>, releases |-> << >>, clusters |-> << >>,
     nextTrackId |-> 1]

\* the id of the Track found at the path, 0 (null pointer) if none
TrackAt(db, file) ==
    LET found == TrackFindByPath(db.tracks, file)
    IN  IF found = {} THEN 0 ELSE (CHOOSE t \in found : TRUE).id

TrackById(db, id) == CHOOSE t \in db.tracks : t.id = id

\* track.modify()->...: the catalog with Track id replaced by row
SetTrack(db, id, row) ==
    [db EXCEPT !.tracks = {t \in db.tracks : t.id # id} \cup {row}]

\* track.remove()
RemoveTrack(db, id) ==
    [db EXCEPT !.tracks = {t \in db.tracks : t.id # id}]

\* session.create<Track>(file): a row with default fields
CreateTrack(db, file) ==
    [db EXCEPT !.tracks = db.tracks \cup
                   {[id |-> db.nextTrackId, path |-> file, lastWriteTime |-> 0,
                     scanVersion |-> 0, recordingMBID |-> None, name |-> "",
                     duration |-> 0, release |-> 0, clusters |-> {},
                     artistLinks |-> << >>]},
               !.nextTrackId = db.nextTrackId + 1]

RECURSIVE LinksOf(_, _, _, _)
\* TrackArtistLink::create for each resolved artist, in order
LinksOf(ids, type, subType, k) ==
    IF k > Len(ids) THEN << >>
    ELSE << [artist |-> ids[k], type |-> type, subType |-> subType] >>
         \o LinksOf(ids, type, subType, k + 1)

\* one link-building loop of scanAudioFile
AddArtistLinks(db, id, artistsInfo, allowFallbackOnMBIDEntries, type, subType) ==
    LET r == GetOrCreateArtists(db.artists, artistsInfo, allowFallbackOnMBIDEntries)
        d1 == [db EXCEPT !.artists = r.artists]
        t == TrackById(d1, id)
    IN  SetTrack(d1, id, [t EXCEPT !.artistLinks =
                                 @ \o LinksOf(r.result, type, subType, 1)])

\* mutant: the links of the earlier scan are kept
ClearArtistLinksKeeps(db, id) == db

\* track.modify()->clearArtistLinks()
ClearArtistLinks(db, id) ==
    SetTrack(db, id, [TrackById(db, id) EXCEPT !.artistLinks = << >>])

\* one link-building loop: its artist list, fallback flag, link type, role
LinkLoop(artistsInfo, allowFallbackOnMBIDEntries, type, subType) ==
    [artistsInfo |-> artistsInfo, allow |-> allowFallbackOnMBIDEntries,
     type |-> type, subType |-> subType]

\* the loops over trackInfo->performerArtists, one per role
PerformerLoops(performerArtists) ==
    [k \in 1..Len(performerArtists) |->
        LinkLoop(performerArtists[k].artists, TRUE, "Performer",
                 performerArtists[k].role)]

\* the link-building loops of scanAudioFile, in source order
LinkLoops(trackInfo) ==
    << LinkLoop(trackInfo.artists, FALSE, "Artist", ""),
       LinkLoop(trackInfo.albumArtists, FALSE, "ReleaseArtist", ""),
       LinkLoop(trackInfo.conductorArtists, TRUE, "Conductor", ""),
       LinkLoop(trackInfo.composerArtists, TRUE, "Composer", ""),
       LinkLoop(trackInfo.lyricistArtists, TRUE, "Lyricist", ""),
       LinkLoop(trackInfo.mixerArtists, TRUE, "Mixer", "") >>
    \o PerformerLoops(trackInfo.performerArtists)
    \o << LinkLoop(trackInfo.producerArtists, TRUE, "Producer", ""),
          LinkLoop(trackInfo.remixerArtists, TRUE, "Remixer", "") >>

RECURSIVE RunLinkLoops(_, _, _, _)
\* the catalog after the first k loops (each loop works on the value left by
\* the one before it)
RunLinkLoops(db, id, loops, k) ==
    IF k = 0 THEN db
    ELSE CHOOSE d2 \in
             { AddArtistLinks(d1, id, loops[k].artistsInfo, loops[k].allow,
                              loops[k].type, loops[k].subType) :
                 d1 \in {RunLinkLoops(db, id, loops, k - 1)} } : TRUE

\* lines 366-396: every link-building loop run in order
BuildArtistLinks(db, id, trackInfo) ==
    RunLinkLoops(db, id, LinkLoops(trackInfo), Len(LinkLoops(trackInfo)))

\* track.modify()->setScanVersion(_settings.scanVersion)
SetScanVersion(db, id, scanVersion) ==
    SetTrack(db, id, [TrackById(db, id) EXCEPT !.scanVersion = scanVersion])

\* setRelease(getOrCreateRelease(...)) or setRelease({})
SetRelease(db, id, trackInfo) ==
    IF trackInfo.album.present
    THEN LET r == GetOrCreateRelease(db.releases, trackInfo.album)
             d1 == [db EXCEPT !.releases = r.releases]
         IN  SetTrack(d1, id, [TrackById(d1, id) EXCEPT !.release = r.release])
    ELSE SetTrack(db, id, [TrackById(db, id) EXCEPT !.release = 0])

\* setClusters(getOrCreateClusters(...))
SetClusters(db, id, trackInfo) ==
    LET r == GetOrCreateClusters(db.clusters, trackInfo.clusters)
        d1 == [db EXCEPT !.clusters = r.clusters]
    IN  SetTrack(d1, id, [TrackById(d1, id) EXCEPT !.clusters =
                              {r.result[k] : k \in 1..Len(r.result)}])

\* title resolution: the parsed title, else the file name
Title(file, trackInfo) ==
    IF trackInfo.title # "" THEN trackInfo.title ELSE file

\* mutant: the last-write time is not stored
SetScalarsNoLastWriteTime(db, id, file, lastWriteTime, trackInfo) ==
    SetTrack(db, id, [TrackById(db, id) EXCEPT
                          !.name = Title(file, trackInfo),
                          !.duration = trackInfo.duration,
                          !.recordingMBID = trackInfo.recordingMBID])

\* setLastWriteTime, setName, setDuration, setRecordingMBID
SetScalars(db, id, file, lastWriteTime, trackInfo) ==
    SetTrack(db, id, [TrackById(db, id) EXCEPT
                          !.lastWriteTime = lastWriteTime,
                          !.name = Title(file, trackInfo),
                          !.duration = trackInfo.duration,
                          !.recordingMBID = trackInfo.recordingMBID])

\* everything scanAudioFile writes to Track id after the create-or-update
\* decision
WriteTrack(db, id, file, lastWriteTime, trackInfo, scanVersion) ==
    LET d1 == ClearArtistLinks(db, id)
        d2 == BuildArtistLinks(d1, id, trackInfo)
        d3 == SetScanVersion(d2, id, scanVersion)
        d4 == SetRelease(d3, id, trackInfo)
        d5 == SetClusters(d4, id, trackInfo)
    IN  SetScalars(d5, id, file, lastWriteTime, trackInfo)

(***************************************************************************)
(* ScanContext: [forceScan, stats, currentStepStats]; stats carries the    *)
(* counters and the error list.                                            *)
(***************************************************************************)
EmptyStats ==
    [filesScanned |-> 0, skips |-> 0, scans |-> 0, additions |-> 0,
     updates |-> 0, deletions |-> 0, errors |-> << >>]

InitContext ==
    [forceScan |-> FALSE, stats |-> EmptyStats,
     currentStepStats |-> [totalElems |-> 0, processedElems |-> 0]]

\* ScanError {file, error, message}
ScanError(file, error, message) ==
    [file |-> file, error |-> error, message |-> message]

\* stats.errors.emplace_back(...)
AddError(context, err) ==
    [context EXCEPT !.stats.errors = Append(@, err)]

(***************************************************************************)
(* scanAudioFile                                                           *)
(***************************************************************************)
\* the change-detection test made under the shared transaction
Unchanged(db, settings, file, lastWriteTime) ==
    LET id == TrackAt(db, file)
    IN  /\ id # 0
        /\ TrackById(db, id).lastWriteTime = lastWriteTime
        /\ TrackById(db, id).scanVersion = settings.scanVersion

\* mutant: the self-test is inverted, so only a re-scanned path can be a
\* duplicate
IsDuplicateOnlyRescan(db, settings, id, trackInfo) ==
    /\ trackInfo.recordingMBID # None
    /\ settings.skipDuplicateRecordingMBID
    /\ \E otherTrack \in TrackFindByRecordingMBID(db.tracks, trackInfo.recordingMBID) :
           id # 0 /\ id # otherTrack.id

\* the duplicate-recording loop: some Track other than the one at the scanned
\* path (id, 0 if none) already carries the parsed recording MBID
IsDuplicate(db, settings, id, trackInfo) ==
    /\ trackInfo.recordingMBID # None
    /\ settings.skipDuplicateRecordingMBID
    /\ \E otherTrack \in TrackFindByRecordingMBID(db.tracks, trackInfo.recordingMBID) :
           ~(id # 0 /\ id = otherTrack.id)

\* mutant: the removal is not counted
RemoveIfExistsUncounted(db, context, id) ==
    IF id # 0
    THEN [db |-> RemoveTrack(db, id), context |-> context]
    ELSE [db |-> db, context |-> context]

\* "if (track) { track.remove(); stats.deletions++; }"
RemoveIfExists(db, context, id) ==
    IF id # 0
    THEN [db |-> RemoveTrack(db, id),
          context |-> [context EXCEPT !.stats.deletions = @ + 1]]
    ELSE [db |-> db, context |-> context]

\* mutant: the Track found at the path is ignored and a new one is created
UpsertAlwaysCreates(db, context, settings, file, lastWriteTime, trackInfo) ==
    [db |-> WriteTrack(CreateTrack(db, file), db.nextTrackId, file,
                       lastWriteTime, trackInfo, settings.scanVersion),
     context |-> [context EXCEPT !.stats.additions = @ + 1],
     outcome |-> "added"]

\* the create-or-update decision and everything written to the Track
Upsert(db, context, settings, file, lastWriteTime, trackInfo) ==
    LET id == TrackAt(db, file)
    IN  IF id = 0
        THEN [db |-> WriteTrack(CreateTrack(db, file), db.nextTrackId, file,
                                lastWriteTime, trackInfo, settings.scanVersion),
              context |-> [context EXCEPT !.stats.additions = @ + 1],
              outcome |-> "added"]
        ELSE [db |-> WriteTrack(db, id, file, lastWriteTime, trackInfo,
                                settings.scanVersion),
              context |-> [context EXCEPT !.stats.updates = @ + 1],
              outcome |-> "updated"]

\* mutant: the validity gate runs before the duplicate loop
ReconcileGateFirst(db, context, settings, file, lastWriteTime, trackInfo) ==
    LET id == TrackAt(db, file)
    IN  IF trackInfo.audioStreams = 0
        THEN LET r == RemoveIfExists(db, context, id)
             IN  [db |-> r.db,
                  context |-> AddError(r.context, ScanError(file, "NoAudioTrack", "")),
                  outcome |-> "noAudio"]
        ELSE IF trackInfo.duration = 0
        THEN LET r == RemoveIfExists(db, context, id)
             IN  [db |-> r.db,
                  context |-> AddError(r.context, ScanError(file, "BadDuration", "")),
                  outcome |-> "badDuration"]
        ELSE IF IsDuplicate(db, settings, id, trackInfo)
        THEN LET r == RemoveIfExists(db, context, id)
             IN  [db |-> r.db, context |-> r.context, outcome |-> "duplicate"]
        ELSE Upsert(db, context, settings, file, lastWriteTime, trackInfo)

\* the body of the unique transaction: duplicate suppression, validity gate,
\* upsert
Reconcile(db, context, settings, file, lastWriteTime, trackInfo) ==
    LET id == TrackAt(db, file)
    IN  IF IsDuplicate(db, settings, id, trackInfo)
        THEN LET r == RemoveIfExists(db, context, id)
             IN  [db |-> r.db, context |-> r.context, outcome |-> "duplicate"]
        ELSE IF trackInfo.audioStreams = 0
        THEN LET r == RemoveIfExists(db, context, id)
             IN  [db |-> r.db,
                  context |-> AddError(r.context, ScanError(file, "NoAudioTrack", "")),
                  outcome |-> "noAudio"]
        ELSE IF trackInfo.duration = 0
        THEN LET r == RemoveIfExists(db, context, id)
             IN  [db |-> r.db,
                  context |-> AddError(r.context, ScanError(file, "BadDuration", "")),
                  outcome |-> "badDuration"]
        ELSE Upsert(db, context, settings, file, lastWriteTime, trackInfo)

\* mutant: the file is left without being counted as skipped
UnreadableUncounted(db, context, file) ==
    [db |-> db, context |-> context, outcome |-> "skipUnreadable"]

\* the handling of a last-write time that cannot be read
UnreadableLastWriteTime(db, context, file) ==
    [db |-> db, context |-> [context EXCEPT !.stats.skips = @ + 1],
     outcome |-> "skipUnreadable"]

\* scanAudioFile(file, context).  lwtOk: getLastWriteTime did not throw;
\* parsed: the parser returned a record (trackInfo)
ScanAudioFile(db, context, settings, file, lwtOk, lastWriteTime, parsed, trackInfo) ==
    IF ~lwtOk
    THEN UnreadableLastWriteTime(db, context, file)
    ELSE IF ~context.forceScan /\ Unchanged(db, settings, file, lastWriteTime)
    THEN [db |-> db, context |-> [context EXCEPT !.stats.skips = @ + 1],
          outcome |-> "skipUnchanged"]
    ELSE IF ~parsed
    THEN [db |-> db,
          context |-> AddError(context, ScanError(file, "CannotParseFile", "")),
          outcome |-> "parseError"]
    ELSE Reconcile(db, [context EXCEPT !.stats.scans = @ + 1], settings, file,
                   lastWriteTime, trackInfo)

(***************************************************************************)
(* State                                                                   *)
(***************************************************************************)
VARIABLES
    db,         \* the catalog
    context,    \* the ScanContext handed to process()
    settings,   \* _settings: scanVersion, skipDuplicateRecordingMBID
    abortScan,  \* _abortScan
    walk,       \* the walk of process(): Idle, Walking, Completed, Aborted
    progress,   \* number of _progressCallback invocations
    calls,      \* number of walker callback invocations so far
    last,       \* the latest walker callback: its arguments, what the
                \* collaborators returned, the branch taken, its return value
    resolve,    \* the getOrCreateArtists invocation in progress (SpecArtists)
    workers,    \* the threads running process() side by side (SpecConc):
                \* position, ScanContext, locals, uncommitted catalog
    lock        \* who holds a shared / the unique transaction (SpecConc)

vars ==
    << db, context, settings, abortScan, walk, progress, calls, last, resolve,
       workers, lock >>

NoCall ==
    [kind |-> "none", ret |-> TRUE, path |-> "", lwtOk |-> TRUE,
     lastWriteTime |-> 0, parsed |-> FALSE, trackInfo |-> BaseInfo,
     scanVersion |-> 0, outcome |-> "none"]

\* no getOrCreateArtists invocation in progress
NoResolve ==
    [active |-> FALSE, artistsInfo |-> << >>, allow |-> FALSE, k |-> 1,
     result |-> << >>, branch |-> "none"]

\* the threads that run process() side by side, each on the session of its
\* own thread (getTLSSession) and with the ScanContext it was handed
Workers == {"w1", "w2"}

\* the records a parser run can return in SpecConc: the fully tagged file and
\* the one without audio stream
ConcInfos ==
    {ti \in TrackInfos :
        ti.performerArtists = << >> /\ ti.duration # 0 /\ ti.title # ""}

\* a thread outside process()
NoWorker ==
    [pc |-> "stopped", context |-> InitContext, entries |-> 0, progress |-> 0,
     file |-> "", lastWriteTime |-> 0, trackInfo |-> BaseInfo, track |-> 0,
     txn |-> EmptyDb, outcome |-> "none"]

\* no transaction is open
NoLock == [readers |-> {}, writer |-> None]

Init ==
    /\ db = EmptyDb
    /\ context = InitContext
    /\ settings \in [scanVersion : {1}, skipDuplicateRecordingMBID : BOOLEAN]
    /\ abortScan = FALSE
    /\ walk = "Idle"
    /\ progress = 0
    /\ calls = 0
    /\ last = NoCall
    /\ resolve = NoResolve
    /\ workers = [w \in Workers |-> NoWorker]
    /\ lock = NoLock

(***************************************************************************)
(* process(): the caller, the walker and its callback                      *)
(***************************************************************************)
\* process(context) is entered: the caller chose forceScan and the scan
\* version of the settings (a version that only grows from one run to the
\* next); totalElems is read from the stats
ProcessStart ==
    /\ walk # "Walking"
    /\ calls < MaxCalls
    /\ \E force \in BOOLEAN, version \in ScanVersions :
          /\ version >= settings.scanVersion
          /\ context' = [context EXCEPT
                            !.forceScan = force,
                            !.currentStepStats.totalElems = context.stats.filesScanned]
          /\ settings' = [settings EXCEPT !.scanVersion = version]
    /\ walk' = "Walking"
    /\ UNCHANGED << db, abortScan, progress, calls, last, resolve, workers,
                    lock >>

\* the abort flag is raised from outside
RequestAbort ==
    /\ ~abortScan
    /\ abortScan' = TRUE
    /\ UNCHANGED << db, context, settings, walk, progress, calls, last,
                    resolve, workers, lock >>

\* callback: "if (_abortScan) return false;" and the walker stops
CallbackAbort ==
    /\ walk = "Walking" /\ calls < MaxCalls
    /\ abortScan
    /\ \E path \in Paths :
          last' = [NoCall EXCEPT !.kind = "abort", !.ret = FALSE, !.path = path]
    /\ walk' = "Aborted"
    /\ calls' = calls + 1
    /\ UNCHANGED << db, context, settings, abortScan, progress, resolve,
                    workers, lock >>

\* mutant: a walker error ends the walk
CallbackErrorStops ==
    /\ walk = "Walking" /\ calls < MaxCalls
    /\ ~abortScan
    /\ \E path \in Paths :
          /\ context' = AddError(context, ScanError(path, "CannotReadFile", "ec"))
          /\ last' = [NoCall EXCEPT !.kind = "error", !.ret = FALSE, !.path = path]
    /\ walk' = "Aborted"
    /\ calls' = calls + 1
    /\ UNCHANGED << db, settings, abortScan, progress, resolve, workers, lock >>

\* callback: the walker reports an error code for the entry
CallbackError ==
    /\ walk = "Walking" /\ calls < MaxCalls
    /\ ~abortScan
    /\ \E path \in Paths :
          /\ context' = AddError(context, ScanError(path, "CannotReadFile", "ec"))
          /\ last' = [NoCall EXCEPT !.kind = "error", !.ret = TRUE, !.path = path]
    /\ calls' = calls + 1
    /\ UNCHANGED << db, settings, abortScan, walk, progress, resolve,
                    workers, lock >>

\* callback: an entry with a supported extension is scanned, then counted and
\* reported
CallbackScan ==
    /\ walk = "Walking" /\ calls < MaxCalls
    /\ ~abortScan
    /\ \E path \in Paths, lwtOk \in BOOLEAN, lastWriteTime \in Times,
          parsed \in BOOLEAN, trackInfo \in TrackInfos \cup {BaseInfo} :
          \* what is never read is fixed: the time of an unreadable file (and
          \* its tags), the record of an unparsable one
          /\ lwtOk \/ (lastWriteTime = 1 /\ ~parsed)
          /\ parsed = (trackInfo \in TrackInfos)
          /\ LET r == ScanAudioFile(db, context, settings, path, lwtOk,
                                    lastWriteTime, parsed, trackInfo)
             IN  /\ db' = r.db
                 /\ context' = [r.context EXCEPT
                                   !.currentStepStats.processedElems = @ + 1]
                 /\ last' = [kind |-> "scan", ret |-> TRUE, path |-> path,
                             lwtOk |-> lwtOk, lastWriteTime |-> lastWriteTime,
                             parsed |-> parsed, trackInfo |-> trackInfo,
                             scanVersion |-> settings.scanVersion,
                             outcome |-> r.outcome]
    /\ progress' = progress + 1
    /\ calls' = calls + 1
    /\ UNCHANGED << settings, abortScan, walk, resolve, workers, lock >>

\* callback: an entry without a supported extension
CallbackOther ==
    /\ walk = "Walking" /\ calls < MaxCalls
    /\ ~abortScan
    /\ \E path \in Paths :
          last' = [NoCall EXCEPT !.kind = "other", !.ret = TRUE, !.path = path]
    /\ calls' = calls + 1
    /\ UNCHANGED << db, context, settings, abortScan, walk, progress,
                    resolve, workers, lock >>

\* the walker has no entry left and process() returns
WalkDone ==
    /\ walk = "Walking"
    /\ walk' = "Completed"
    /\ UNCHANGED << db, context, settings, abortScan, progress, calls, last,
                    resolve, workers, lock >>

Next ==
    \/ ProcessStart
    \/ RequestAbort
    \/ CallbackAbort
    \/ CallbackError
    \/ CallbackScan
    \/ CallbackOther
    \/ WalkDone

Spec == Init /\ [][Next]_vars

(***************************************************************************)
(* SpecArtists: getOrCreateArtists run on its own, one loop iteration per  *)
(* step, for any sequence of invocations on a session that starts empty.   *)
(***************************************************************************)
ArtistInfos ==
    { AI(name, mbid, sortName) :
        name \in {"", "A", "B"}, mbid \in {None, "M1"}, sortName \in {None, "S"} }

ArtistInfoLists ==
    { << a >> : a \in ArtistInfos } \cup
    { << a, b >> : a \in ArtistInfos, b \in {AI("A", None, None), AI("B", "M1", None)} }

\* which branch of the loop body an artist record takes
ResolveBranch(arts, artistInfo, allowFallbackOnMBIDEntries) ==
    IF artistInfo.musicBrainzArtistID = None /\ artistInfo.name = "" THEN "skipped"
    ELSE IF Len(ResolveArtist(arts, artistInfo, allowFallbackOnMBIDEntries).artists)
            > Len(arts)
    THEN "created"
    ELSE "found"

\* getOrCreateArtists is entered with its arguments
GetOrCreateArtistsCall ==
    /\ ~resolve.active
    /\ \E artistsInfo \in ArtistInfoLists, allow \in BOOLEAN :
          resolve' = [active |-> TRUE, artistsInfo |-> artistsInfo, allow |-> allow,
                      k |-> 1, result |-> << >>, branch |-> "none"]
    /\ UNCHANGED << db, context, settings, abortScan, walk, progress, calls,
                    last, workers, lock >>

\* one iteration of its loop
GetOrCreateArtistsStep ==
    /\ resolve.active
    /\ resolve.k <= Len(resolve.artistsInfo)
    /\ LET r == ResolveArtist(db.artists, resolve.artistsInfo[resolve.k], resolve.allow)
       IN  /\ db' = [db EXCEPT !.artists = r.artists]
           /\ resolve' = [resolve EXCEPT
                             !.k = @ + 1,
                             !.result = IF r.artist = 0 THEN @ ELSE Append(@, r.artist),
                             !.branch = ResolveBranch(db.artists,
                                                      resolve.artistsInfo[resolve.k],
                                                      resolve.allow)]
    /\ UNCHANGED << context, settings, abortScan, walk, progress, calls,
                    last, workers, lock >>

\* "return artists;"
GetOrCreateArtistsReturn ==
    /\ resolve.active
    /\ resolve.k > Len(resolve.artistsInfo)
    /\ resolve' = [resolve EXCEPT !.active = FALSE]
    /\ UNCHANGED << db, context, settings, abortScan, walk, progress, calls,
                    last, workers, lock >>

NextArtists ==
    \/ GetOrCreateArtistsCall
    \/ GetOrCreateArtistsStep
    \/ GetOrCreateArtistsReturn

SpecArtists == Init /\ [][NextArtists]_vars

(***************************************************************************)
(* SpecConc: process() run by several threads at once, one source          *)
(* statement group per step.  A shared transaction is open from its        *)
(* creation to the end of the change-detection block, the unique one from  *)
(* its creation to the return of scanAudioFile.  What a thread writes      *)
(* inside its unique transaction goes to its own copy of the catalog (txn) *)
(* and replaces the catalog when the transaction commits; a transaction    *)
(* that ends by an exception is dropped.                                   *)
(***************************************************************************)
\* the positions inside the unique transaction
WritePcs == {"find", "clear", "links", "release", "scalars", "commit"}

\* createSharedTransaction() can return: no unique transaction is open
CanShare(l) == l.writer = None

\* createUniqueTransaction() can return: no transaction at all is open
CanWrite(l) == l.writer = None /\ l.readers = {}

RECURSIVE SumEntries(_)
\* the walker entries taken so far by the threads ws
SumEntries(ws) ==
    IF ws = {} THEN 0
    ELSE LET w == CHOOSE x \in ws : TRUE
         IN  workers[w].entries + SumEntries(ws \ {w})

\* what no step of SpecConc touches
OnlyWorkers == UNCHANGED << context, settings, abortScan, walk, progress, calls,
                            last, resolve >>

\* process(context) is entered by thread w, with a context as constructed
\* (no force-rescan: with it the change-detection block is skipped and only
\* the unique transaction is left)
WorkerStart(w) ==
    /\ workers[w].pc = "stopped"
    /\ workers' = [workers EXCEPT
                      ![w].pc = "walking",
                      ![w].context.currentStepStats.totalElems =
                          workers[w].context.stats.filesScanned]
    /\ OnlyWorkers /\ UNCHANGED << db, lock >>

\* callback: "if (_abortScan) return false;" and the walker of w stops
EntryAbort(w) ==
    /\ workers[w].pc = "walking"
    /\ abortScan
    /\ workers' = [workers EXCEPT ![w].pc = "aborted"]
    /\ OnlyWorkers /\ UNCHANGED << db, lock >>

\* callback: the walker reports an error code for the entry
EntryError(w) ==
    /\ workers[w].pc = "walking" /\ SumEntries(Workers) < MaxEntries
    /\ ~abortScan
    /\ \E path \in Paths :
          workers' = [workers EXCEPT
              ![w].context = AddError(@, ScanError(path, "CannotReadFile", "ec")),
              ![w].entries = @ + 1]
    /\ OnlyWorkers /\ UNCHANGED << db, lock >>

\* mutant: the callback goes on to scanAudioFile although the flag is set
EntryScanNoAbortCheck(w) ==
    /\ workers[w].pc = "walking" /\ SumEntries(Workers) < MaxEntries
    /\ \E path \in Paths :
          workers' = [workers EXCEPT
              ![w].pc = "lwt", ![w].file = path, ![w].entries = @ + 1,
              ![w].outcome = "none"]
    /\ OnlyWorkers /\ UNCHANGED << db, lock >>

\* callback: an entry with a supported extension; scanAudioFile is entered
EntryScan(w) ==
    /\ workers[w].pc = "walking" /\ SumEntries(Workers) < MaxEntries
    /\ ~abortScan
    /\ \E path \in Paths :
          workers' = [workers EXCEPT
              ![w].pc = "lwt", ![w].file = path, ![w].entries = @ + 1,
              ![w].outcome = "none"]
    /\ OnlyWorkers /\ UNCHANGED << db, lock >>

\* scanAudioFile, the try block: getLastWriteTime returns or throws
ReadLastWriteTime(w) ==
    /\ workers[w].pc = "lwt"
    /\ \E lwtOk \in BOOLEAN, lastWriteTime \in Times :
          /\ lwtOk \/ lastWriteTime = 1
          /\ workers' =
               IF ~lwtOk
               THEN [workers EXCEPT
                        ![w].context.stats.skips = @ + 1,
                        ![w].outcome = "skipUnreadable",
                        ![w].pc = "report"]
               ELSE [workers EXCEPT
                        ![w].lastWriteTime = lastWriteTime,
                        ![w].pc = IF workers[w].context.forceScan
                                  THEN "parse" ELSE "shared"]
    /\ OnlyWorkers /\ UNCHANGED << db, lock >>

\* "auto transaction {createSharedTransaction()}" returns
SharedBegin(w) ==
    /\ workers[w].pc = "shared"
    /\ CanShare(lock)
    /\ lock' = [lock EXCEPT !.readers = @ \cup {w}]
    /\ workers' = [workers EXCEPT ![w].pc = "detect"]
    /\ OnlyWorkers /\ UNCHANGED db

\* mutant: the shared transaction outlives the change-detection block
DetectChangeKeepsShared(w) ==
    /\ workers[w].pc = "detect"
    /\ workers' =
         IF Unchanged(db, settings, workers[w].file, workers[w].lastWriteTime)
         THEN [workers EXCEPT
                  ![w].context.stats.skips = @ + 1,
                  ![w].outcome = "skipUnchanged",
                  ![w].pc = "report"]
         ELSE [workers EXCEPT ![w].pc = "parse"]
    /\ OnlyWorkers /\ UNCHANGED << db, lock >>

\* the change-detection test; the shared transaction ends with its block
DetectChange(w) ==
    /\ workers[w].pc = "detect"
    /\ workers' =
         IF Unchanged(db, settings, workers[w].file, workers[w].lastWriteTime)
         THEN [workers EXCEPT
                  ![w].context.stats.skips = @ + 1,
                  ![w].outcome = "skipUnchanged",
                  ![w].pc = "report"]
         ELSE [workers EXCEPT ![w].pc = "parse"]
    /\ lock' = [lock EXCEPT !.readers = @ \ {w}]
    /\ OnlyWorkers /\ UNCHANGED db

\* mutant: the scan is counted before the parser's result is tested
ParseFileCountsFirst(w) ==
    /\ workers[w].pc = "parse"
    /\ \E trackInfo \in ConcInfos \cup {BaseInfo} :
          workers' =
            IF trackInfo \notin ConcInfos
            THEN [workers EXCEPT
                     ![w].context = AddError([@ EXCEPT !.stats.scans = @ + 1],
                                             ScanError(workers[w].file,
                                                       "CannotParseFile", "")),
                     ![w].outcome = "parseError",
                     ![w].pc = "report"]
            ELSE [workers EXCEPT
                     ![w].context.stats.scans = @ + 1,
                     ![w].trackInfo = trackInfo,
                     ![w].pc = "unique"]
    /\ OnlyWorkers /\ UNCHANGED << db, lock >>

\* _metadataParser->parse(file), the parse error, "stats.scans++"
ParseFile(w) ==
    /\ workers[w].pc = "parse"
    /\ \E trackInfo \in ConcInfos \cup {BaseInfo} :
          workers' =
            IF trackInfo \notin ConcInfos
            THEN [workers EXCEPT
                     ![w].context = AddError(@, ScanError(workers[w].file,
                                                          "CannotParseFile", "")),
                     ![w].outcome = "parseError",
                     ![w].pc = "report"]
            ELSE [workers EXCEPT
                     ![w].context.stats.scans = @ + 1,
                     ![w].trackInfo = trackInfo,
                     ![w].pc = "unique"]
    /\ OnlyWorkers /\ UNCHANGED << db, lock >>

\* mutant: the unique transaction is handed out while other transactions are
\* open
UniqueBeginNoWait(w) ==
    /\ workers[w].pc = "unique"
    /\ lock' = [lock EXCEPT !.writer = w]
    /\ workers' = [workers EXCEPT ![w].pc = "find", ![w].txn = db]
    /\ OnlyWorkers /\ UNCHANGED db

\* "auto uniqueTransaction {createUniqueTransaction()}" returns
UniqueBegin(w) ==
    /\ workers[w].pc = "unique"
    /\ CanWrite(lock)
    /\ lock' = [lock EXCEPT !.writer = w]
    /\ workers' = [workers EXCEPT ![w].pc = "find", ![w].txn = db]
    /\ OnlyWorkers /\ UNCHANGED db

\* findByPath, the duplicate loop, the validity gate, the create-or-update
\* decision (lines 284-359)
FindAndGate(w) ==
    /\ workers[w].pc = "find"
    /\ \E me \in {workers[w]} :
       \E id \in {TrackAt(me.txn, me.file)} :
       \E removed \in {RemoveIfExists(me.txn, me.context, id)} :
           workers' =
             IF IsDuplicate(me.txn, settings, id, me.trackInfo)
             THEN [workers EXCEPT
                      ![w].txn = removed.db, ![w].context = removed.context,
                      ![w].outcome = "duplicate", ![w].pc = "commit"]
             ELSE IF me.trackInfo.audioStreams = 0
             THEN [workers EXCEPT
                      ![w].txn = removed.db,
                      ![w].context = AddError(removed.context,
                                              ScanError(me.file, "NoAudioTrack", "")),
                      ![w].outcome = "noAudio", ![w].pc = "commit"]
             ELSE IF me.trackInfo.duration = 0
             THEN [workers EXCEPT
                      ![w].txn = removed.db,
                      ![w].context = AddError(removed.context,
                                              ScanError(me.file, "BadDuration", "")),
                      ![w].outcome = "badDuration", ![w].pc = "commit"]
             ELSE IF id = 0
             THEN [workers EXCEPT
                      ![w].txn = CreateTrack(me.txn, me.file),
                      ![w].track = me.txn.nextTrackId,
                      ![w].context.stats.additions = @ + 1,
                      ![w].outcome = "added", ![w].pc = "clear"]
             ELSE [workers EXCEPT
                      ![w].track = id,
                      ![w].context.stats.updates = @ + 1,
                      ![w].outcome = "updated", ![w].pc = "clear"]
    /\ OnlyWorkers /\ UNCHANGED << db, lock >>

\* mutant: the cleared links are committed by a transaction of their own
ClearLinksOwnTransaction(w) ==
    /\ workers[w].pc = "clear"
    /\ workers' = [workers EXCEPT
                      ![w].txn = ClearArtistLinks(@, workers[w].track),
                      ![w].pc = "links"]
    /\ db' = ClearArtistLinks(workers[w].txn, workers[w].track)
    /\ OnlyWorkers /\ UNCHANGED lock

\* track.modify()->clearArtistLinks()
ClearLinks(w) ==
    /\ workers[w].pc = "clear"
    /\ workers' = [workers EXCEPT
                      ![w].txn = ClearArtistLinks(@, workers[w].track),
                      ![w].pc = "links"]
    /\ OnlyWorkers /\ UNCHANGED << db, lock >>

\* the link-building loops (lines 366-396)
BuildLinks(w) ==
    /\ workers[w].pc = "links"
    /\ \E me \in {workers[w]} :
       \E d2 \in {BuildArtistLinks(me.txn, me.track, me.trackInfo)} :
          workers' = [workers EXCEPT ![w].txn = d2, ![w].pc = "release"]
    /\ OnlyWorkers /\ UNCHANGED << db, lock >>

\* setScanVersion, setRelease, setClusters (lines 398-403)
SetVersionReleaseClusters(w) ==
    /\ workers[w].pc = "release"
    /\ \E me \in {workers[w]} :
       \E d3 \in {SetScanVersion(me.txn, me.track, settings.scanVersion)} :
       \E d4 \in {SetRelease(d3, me.track, me.trackInfo)} :
       \E d5 \in {SetClusters(d4, me.track, me.trackInfo)} :
          workers' = [workers EXCEPT ![w].txn = d5, ![w].pc = "scalars"]
    /\ OnlyWorkers /\ UNCHANGED << db, lock >>

\* the scalar setters (lines 404-428)
SetFields(w) ==
    /\ workers[w].pc = "scalars"
    /\ \E me \in {workers[w]} :
       \E d6 \in {SetScalars(me.txn, me.track, me.file, me.lastWriteTime,
                             me.trackInfo)} :
          workers' = [workers EXCEPT ![w].txn = d6, ![w].pc = "commit"]
    /\ OnlyWorkers /\ UNCHANGED << db, lock >>

\* scanAudioFile returns: the unique transaction commits
Commit(w) ==
    /\ workers[w].pc = "commit"
    /\ db' = workers[w].txn
    /\ lock' = [lock EXCEPT !.writer = None]
    /\ workers' = [workers EXCEPT ![w].txn = EmptyDb, ![w].pc = "report"]
    /\ OnlyWorkers

\* an exception leaves scanAudioFile inside the unique transaction, which is
\* rolled back; nothing in process() catches it
Rollback(w) ==
    /\ workers[w].pc \in WritePcs
    /\ lock' = [lock EXCEPT !.writer = None]
    /\ workers' = [workers EXCEPT ![w].txn = EmptyDb, ![w].pc = "failed"]
    /\ OnlyWorkers /\ UNCHANGED db

\* back in the callback: processedElems++, _progressCallback, "return true"
Report(w) ==
    /\ workers[w].pc = "report"
    /\ workers' = [workers EXCEPT
                      ![w].context.currentStepStats.processedElems = @ + 1,
                      ![w].progress = @ + 1,
                      ![w].file = "", ![w].lastWriteTime = 0,
                      ![w].trackInfo = BaseInfo, ![w].track = 0,
                      ![w].pc = "walking"]
    /\ OnlyWorkers /\ UNCHANGED << db, lock >>

\* the walker of w has no entry left and process() returns
WorkerDone(w) ==
    /\ workers[w].pc = "walking"
    /\ workers' = [workers EXCEPT ![w].pc = "done"]
    /\ OnlyWorkers /\ UNCHANGED << db, lock >>

NextConc ==
    \/ RequestAbort
    \/ \E w \in Workers : WorkerStart(w)
    \/ \E w \in Workers : EntryAbort(w)
    \/ \E w \in Workers : EntryError(w)
    \/ \E w \in Workers : EntryScan(w)
    \/ \E w \in Workers : ReadLastWriteTime(w)
    \/ \E w \in Workers : SharedBegin(w)
    \/ \E w \in Workers : DetectChange(w)
    \/ \E w \in Workers : ParseFile(w)
    \/ \E w \in Workers : UniqueBegin(w)
    \/ \E w \in Workers : FindAndGate(w)
    \/ \E w \in Workers : ClearLinks(w)
    \/ \E w \in Workers : BuildLinks(w)
    \/ \E w \in Workers : SetVersionReleaseClusters(w)
    \/ \E w \in Workers : SetFields(w)
    \/ \E w \in Workers : Commit(w)
    \/ \E w \in Workers : Rollback(w)
    \/ \E w \in Workers : Report(w)
    \/ \E w \in Workers : WorkerDone(w)

SpecConc == Init /\ [][NextConc]_vars

(***************************************************************************)
(* SpecScan: scanAudioFile run on its own, any sequence of calls on a      *)
(* catalog that starts empty, with a context as constructed (force-rescan  *)
(* off).  What the parser returns is drawn from the records that carry     *)
(* the recording MBID, the record of a file without tags and the record    *)
(* of a file credited in every role.                                       *)
(***************************************************************************)
ScanInfos ==
    {ti \in TrackInfos : ti.recordingMBID # None /\ ti.title # ""}
        \cup {BaseInfo, CreditsInfo}

\* scanAudioFile(file, context) is called, on a file whose parsed record is
\* one of infos, and returns; at most bound calls are explored
ScanCall(infos, bound) ==
    /\ calls < bound
    /\ \E path \in Paths, lwtOk \in BOOLEAN, lastWriteTime \in Times,
          parsed \in BOOLEAN, trackInfo \in infos :
          \* what is never read is fixed
          /\ lwtOk \/ (lastWriteTime = 1 /\ ~parsed)
          /\ parsed \/ trackInfo = BaseInfo
          /\ LET r == ScanAudioFile(db, context, settings, path, lwtOk,
                                    lastWriteTime, parsed, trackInfo)
             IN  /\ db' = r.db
                 /\ context' = r.context
                 /\ last' = [kind |-> "scan", ret |-> TRUE, path |-> path,
                             lwtOk |-> lwtOk, lastWriteTime |-> lastWriteTime,
                             parsed |-> parsed, trackInfo |-> trackInfo,
                             scanVersion |-> settings.scanVersion,
                             outcome |-> r.outcome]
    /\ calls' = calls + 1
    /\ UNCHANGED << settings, abortScan, walk, progress, resolve, workers, lock >>

ScanAudioFileCall == ScanCall(ScanInfos, MaxScans)

NextScan == ScanAudioFileCall

SpecScan == Init /\ [][NextScan]_vars

(***************************************************************************)
(* SpecTags: the same, on files that differ by their album and by their    *)
(* clusters only.                                                          *)
(***************************************************************************)
\* the albums a file can carry: named, with or without MBID, renamed under
\* the same MBID, present with neither name nor MBID
Albums ==
    {Album("X", None), Album("X", "RM1"), Album("Y", "RM1"), Album("", None)}

\* the clusters a file can carry: of the provisioned type, of an unknown one
ClusterLists ==
    { << [type |-> "genre", names |-> << "Rock" >>] >>,
      << [type |-> "genre", names |-> << "Pop", "Rock" >>] >>,
      << [type |-> "mood", names |-> << "Calm" >>] >>,
      << [type |-> "mood", names |-> << "Calm" >>],
         [type |-> "genre", names |-> << "Pop" >>] >> }

TagInfos ==
    {[BaseInfo EXCEPT !.album = album] : album \in Albums}
        \cup {[BaseInfo EXCEPT !.clusters = clusters] : clusters \in ClusterLists}
        \cup {BaseInfo}

ScanTagsCall == ScanCall(TagInfos, MaxTagScans)

NextTags == ScanTagsCall

SpecTags == Init /\ [][NextTags]_vars

(***************************************************************************)
(* Properties                                                              *)
(***************************************************************************)
\* this step is a walker callback that called scanAudioFile
ScanStep == calls' = calls + 1 /\ last'.kind = "scan"

\* the Tracks cataloged at a path
TracksAt(d, file) == {t \in d.tracks : t.path = file}

\* C1 as claimed.  With force-rescan off, a second scanAudioFile call on the
\* same file, whose last-write time and scan version are those of the first
\* call, changes nothing in the catalog and no statistic but skips, which
\* grows by one.
C1_Repeat ==
    /\ ScanStep
    /\ last.kind = "scan" /\ last.path = last'.path
    /\ last.lwtOk /\ last'.lwtOk
    /\ last.lastWriteTime = last'.lastWriteTime
    /\ last.scanVersion = last'.scanVersion
    /\ ~context.forceScan

C1_SkipOnly ==
    /\ db' = db
    /\ context'.stats = [context.stats EXCEPT !.skips = @ + 1]

C1_Original == [][C1_Repeat => C1_SkipOnly]_vars

\* C1 Idempotence (amended): with force-rescan off, a second scanAudioFile
\* call on a file that the first call left cataloged (it created or updated
\* the Track, or found it unchanged), with the same last-write time and scan
\* version, changes nothing in the catalog and no statistic but skips, which
\* grows by one.
C1_Idempotence ==
    [][(C1_Repeat /\ last.outcome \in {"added", "updated", "skipUnchanged"})
          => C1_SkipOnly]_vars

C1_Witness ==
    /\ calls = 2
    /\ last.outcome = "skipUnchanged"
    /\ ~context.forceScan
    /\ context.stats.additions = 1 /\ context.stats.skips = 1
    /\ context.stats.scans = 1
    /\ Cardinality(db.tracks) = 1

\* C2 Duplicate recording suppression: with the skip-duplicate policy
\* enabled, no two cataloged Tracks carry the same non-null recording MBID.
C2_NoDuplicateRecording ==
    settings.skipDuplicateRecordingMBID =>
        \A t1 \in db.tracks, t2 \in db.tracks :
            (t1.recordingMBID # None /\ t1.recordingMBID = t2.recordingMBID)
                => t1 = t2

C2_Witness ==
    /\ settings.skipDuplicateRecordingMBID
    /\ calls = 2
    /\ last.outcome = "duplicate" /\ last.trackInfo.recordingMBID = "R1"
    /\ TracksAt(db, last.path) = {}
    /\ Cardinality({t \in db.tracks : t.recordingMBID = "R1"}) = 1

\* C3 MBID uniqueness: no two Artists carry the same present MBID and no two
\* Releases carry the same present MBID.
C3_MBIDUnique ==
    /\ \A i, j \in 1..Len(db.artists) :
          (db.artists[i].mbid # None /\ db.artists[i].mbid = db.artists[j].mbid)
              => i = j
    /\ \A i, j \in 1..Len(db.releases) :
          (db.releases[i].mbid # None /\ db.releases[i].mbid = db.releases[j].mbid)
              => i = j

\* two Tracks credit the one Artist M1 and belong to the one Release RM1
C3_Witness ==
    /\ Cardinality(db.tracks) = 2
    /\ Len(db.artists) = 1 /\ db.artists[1].mbid = "M1"
    /\ Len(db.releases) = 1 /\ db.releases[1].mbid = "RM1"
    /\ \A t \in db.tracks :
          /\ t.release = 1
          /\ Len(t.artistLinks) = 1 /\ t.artistLinks[1].artist = 1

\* this step is one iteration of the loop of getOrCreateArtists
ArtistsStep == resolve.active /\ resolve'.k = resolve.k + 1

\* the artist record that iteration handles
StepInfo == resolve.artistsInfo[resolve.k]

\* the Artists carrying the name / the MBID before the iteration
SameNamed(name) == {i \in 1..Len(db.artists) : db.artists[i].name = name}
SameMBID(mbid) == {i \in 1..Len(db.artists) : db.artists[i].mbid = mbid}

Min(S) == CHOOSE x \in S : \A y \in S : x <= y

\* C4 MBID precedence: when the record carries an MBID that an existing Artist
\* carries under a different name, that Artist's name becomes the parsed
\* name (and its sort-name a supplied sort-name), it is the Artist returned,
\* no Artist is created and no other Artist changes.
C4_MBIDPrecedence ==
    [][(/\ ArtistsStep
        /\ StepInfo.musicBrainzArtistID # None
        /\ \E i \in SameMBID(StepInfo.musicBrainzArtistID) :
              db.artists[i].name # StepInfo.name)
       => (/\ Len(db'.artists) = Len(db.artists)
           /\ \A i \in 1..Len(db.artists) :
                 IF i \in SameMBID(StepInfo.musicBrainzArtistID)
                 THEN /\ db'.artists[i].name = StepInfo.name
                      /\ db'.artists[i].mbid = db.artists[i].mbid
                      /\ db'.artists[i].sortName =
                            IF StepInfo.sortName # None THEN StepInfo.sortName
                            ELSE db.artists[i].sortName
                      /\ resolve'.result = Append(resolve.result, i)
                 ELSE db'.artists[i] = db.artists[i])]_vars

\* one call credits M1 as "A" and then as "B": one Artist, now named "B"
C4_Witness ==
    /\ resolve.artistsInfo = << AI("A", "M1", None), AI("B", "M1", None) >>
    /\ resolve.k = 3
    /\ resolve.result = << 1, 1 >>
    /\ Len(db.artists) = 1
    /\ db.artists[1].name = "B" /\ db.artists[1].mbid = "M1"

\* the main-artist and release-artist loops resolve without fallback on
\* MBID-tagged Artists, the seven other roles with it
C5_RolePolicy ==
    \A trackInfo \in TrackInfos :
        LET loops == LinkLoops(trackInfo)
        IN  /\ \A k \in 1..Len(loops) :
                  loops[k].allow = (loops[k].type \notin {"Artist", "ReleaseArtist"})
            /\ {loops[k].type : k \in 1..Len(loops)} \cup {"Performer"}
                  = {LinkTypes[k] : k \in 1..Len(LinkTypes)}

\* C5 Name-fallback exclusivity: for a record with a name and no MBID, when
\* every same-named Artist carries an MBID, resolution without fallback
\* creates a new MBID-less Artist and resolution with fallback returns the
\* first same-named Artist and creates none; without fallback, a same-named
\* MBID-less Artist is reused when there is one.
C5_NameFallback ==
    /\ [](C5_RolePolicy)
    /\ [][(/\ ArtistsStep
           /\ StepInfo.musicBrainzArtistID = None
           /\ StepInfo.name # ""
           /\ SameNamed(StepInfo.name) # {})
          => LET same == SameNamed(StepInfo.name)
                 untagged == {i \in same : db.artists[i].mbid = None}
             IN  IF resolve.allow
                 THEN /\ Len(db'.artists) = Len(db.artists)
                      /\ resolve'.result = Append(resolve.result, Min(same))
                 ELSE IF untagged # {}
                 THEN /\ Len(db'.artists) = Len(db.artists)
                      /\ resolve'.result = Append(resolve.result, Min(untagged))
                 ELSE /\ Len(db'.artists) = Len(db.artists) + 1
                      /\ db'.artists[Len(db.artists) + 1].name = StepInfo.name
                      /\ db'.artists[Len(db.artists) + 1].mbid = None
                      /\ \A i \in 1..Len(db.artists) : db'.artists[i] = db.artists[i]
                      /\ resolve'.result =
                            Append(resolve.result, Len(db.artists) + 1)]_vars

\* without fallback a second, MBID-less "A" was created beside the tagged one
C5_Witness ==
    /\ ~resolve.allow
    /\ resolve.branch = "created"
    /\ resolve.k > 1
    /\ resolve.artistsInfo[resolve.k - 1].musicBrainzArtistID = None
    /\ Len(db.artists) = 2
    /\ db.artists[1].name = "A" /\ db.artists[1].mbid = "M1"
    /\ db.artists[2].name = "A" /\ db.artists[2].mbid = None
    /\ resolve.result[Len(resolve.result)] = 2

\* the file reaches the validity gate: it is scanned, parsed and not
\* suppressed as a duplicate recording
C6_ReachesGate ==
    /\ ScanStep
    /\ last'.lwtOk /\ last'.parsed
    /\ context.forceScan
       \/ ~\E t \in TracksAt(db, last'.path) :
              /\ t.lastWriteTime = last'.lastWriteTime
              /\ t.scanVersion = settings.scanVersion
    /\ ~(/\ settings.skipDuplicateRecordingMBID
         /\ last'.trackInfo.recordingMBID # None
         /\ \E t \in db.tracks :
               /\ t.recordingMBID = last'.trackInfo.recordingMBID
               /\ t.path # last'.path)

\* C6 Invalid audio cleanup: a file that reaches the validity gate with no
\* audio stream (or else with zero duration) has the Track at its path
\* removed, counted as a deletion, if there is one; exactly one NoAudioTrack
\* (respectively BadDuration) error is recorded for the path, and nothing else
\* changes but the scan count; so every cataloged Track has a duration.
C6_InvalidAudioCleanup ==
    /\ [](\A t \in db.tracks : t.duration # 0)
    /\ [][(/\ C6_ReachesGate
           /\ last'.trackInfo.audioStreams = 0 \/ last'.trackInfo.duration = 0)
          => LET old == TracksAt(db, last'.path)
                 kind == IF last'.trackInfo.audioStreams = 0
                         THEN "NoAudioTrack" ELSE "BadDuration"
             IN  /\ db' = [db EXCEPT !.tracks = @ \ old]
                 /\ context'.stats =
                       [context.stats EXCEPT
                           !.scans = @ + 1,
                           !.deletions = @ + Cardinality(old),
                           !.errors = Append(@, ScanError(last'.path, kind, ""))]]_vars

\* a cataloged Track was re-scanned without audio stream and removed
C6_Witness ==
    /\ calls = 2
    /\ last.outcome = "noAudio"
    /\ db.tracks = {}
    /\ context.stats.additions = 1 /\ context.stats.deletions = 1
    /\ context.stats.scans = 2
    /\ context.stats.errors = << ScanError(last.path, "NoAudioTrack", "") >>

\* the positions of a thread between the entry of scanAudioFile and the
\* return of the callback
InFlightPcs ==
    {"lwt", "shared", "detect", "parse", "unique", "report"} \cup WritePcs

\* a Track row every field of which was written by one scan
WholeTrack(t) ==
    /\ t.scanVersion \in ScanVersions
    /\ t.lastWriteTime \in Times
    /\ t.name # ""
    /\ t.duration # 0

\* this step is the commit of the unique transaction of thread w
Commits(w) == workers[w].pc = "commit" /\ workers'[w].pc = "report"

\* C7 No partial-track state is visible.  The catalog that other threads read
\* changes only when a unique transaction commits, and then by everything
\* one scanAudioFile call does for its file at once (duplicate suppression,
\* validity gate, entity creation, links, release, clusters, scalars); every
\* cataloged Track is whole; no shared transaction is open while a unique one
\* is, and the catalog does not change under an open shared transaction; a
\* unique transaction that ends by a failure leaves the catalog as it was.
C7_NoPartialTrack ==
    /\ [](\A t \in db.tracks : WholeTrack(t))
    /\ [](lock.writer # None => lock.readers = {})
    /\ [][lock.readers # {} => db' = db]_vars
    /\ [][db' # db => \E w \in Workers : lock.writer = w /\ Commits(w)]_vars
    /\ [][\A w \in Workers :
            Commits(w)
               => db' = Reconcile(db, workers[w].context, settings,
                                  workers[w].file, workers[w].lastWriteTime,
                                  workers[w].trackInfo).db]_vars
    /\ [][\A w \in Workers :
            (workers[w].pc \in WritePcs /\ workers'[w].pc = "failed")
               => (db' = db /\ lock'.writer = None)]_vars

\* a cataloged Track is being re-scanned: in the open unique transaction its
\* links are cleared and not yet rebuilt, its last-write time is still the
\* old one, and the catalog still shows the Track with its links
C7_Witness ==
    \E w \in Workers :
       /\ workers[w].pc = "links"
       /\ lock.writer = w
       /\ workers[w].outcome = "updated"
       /\ TrackAt(db, workers[w].file) = workers[w].track
       /\ TrackById(db, workers[w].track).artistLinks # << >>
       /\ TrackById(workers[w].txn, workers[w].track).artistLinks = << >>
       /\ TrackById(db, workers[w].track).lastWriteTime # workers[w].lastWriteTime

\* thread w waits for a transaction
Waiting(w) ==
    \/ workers[w].pc = "shared" /\ ~CanShare(lock)
    \/ workers[w].pc = "unique" /\ ~CanWrite(lock)

\* the steps of scanAudioFile and of the rest of the callback, for thread w
InFlightStep(w) ==
    \/ ReadLastWriteTime(w)
    \/ SharedBegin(w)
    \/ DetectChange(w)
    \/ ParseFile(w)
    \/ UniqueBegin(w)
    \/ FindAndGate(w)
    \/ ClearLinks(w)
    \/ BuildLinks(w)
    \/ SetVersionReleaseClusters(w)
    \/ SetFields(w)
    \/ Commit(w)
    \/ Report(w)

\* C8 Cooperative abort.  A thread whose walker is between two entries while
\* the abort flag is set can only stop: its callback returns false (or the
\* walker had no entry left), nothing is scanned, and its statistics, errors
\* and progress count and the catalog stay as they are; a stopped walk takes
\* no further step; a walk stops only there, so a file in flight is never cut
\* short: with the flag set its processing can still take its next step,
\* unless it waits for a transaction.
C8_CooperativeAbort ==
    /\ [][\A w \in Workers :
            (workers[w].pc = "walking" /\ abortScan /\ workers'[w] # workers[w])
               => /\ \/ workers'[w] = [workers[w] EXCEPT !.pc = "aborted"]
                     \/ workers'[w] = [workers[w] EXCEPT !.pc = "done"]
                  /\ db' = db]_vars
    /\ [][\A w \in Workers :
            workers[w].pc = "aborted" => workers'[w] = workers[w]]_vars
    /\ [][\A w \in Workers :
            (workers'[w].pc = "aborted" /\ workers[w].pc # "aborted")
               => (workers[w].pc = "walking" /\ abortScan)]_vars
    /\ [](\A w \in Workers :
            (abortScan /\ workers[w].pc \in InFlightPcs /\ ~Waiting(w))
               => ENABLED InFlightStep(w))

\* the flag was raised while a file was in flight: one walk has stopped, the
\* Track it added before is still cataloged, and the other thread is about
\* to commit the file it had started
C8_Witness ==
    /\ abortScan
    /\ \E w, v \in Workers :
          /\ workers[w].pc = "aborted"
          /\ workers[w].context.stats.additions = 1
          /\ workers[w].progress = 1
          /\ db.tracks # {}
          /\ workers[v].pc = "commit"
          /\ workers[v].outcome = "added"

\* C9 as claimed.  When the last-write time cannot be read, scanAudioFile
\* appends a CannotReadFile error for the path to the error list, counts a
\* skip and does nothing else.
C9_UnreadableLastWriteTime ==
    [][(ScanStep /\ ~last'.lwtOk)
          => /\ db' = db
             /\ Len(context'.stats.errors) = Len(context.stats.errors) + 1
             /\ context'.stats.errors[Len(context'.stats.errors)].file = last'.path
             /\ context'.stats.errors[Len(context'.stats.errors)].error
                   = "CannotReadFile"
             /\ [context'.stats EXCEPT !.errors = context.stats.errors]
                   = [context.stats EXCEPT !.skips = @ + 1]]_vars

\* C10 Per-file errors never stop the walk: a callback entered with the abort
\* flag clear returns true and leaves the walk going, whatever the entry's
\* outcome; for a walker error code it appends exactly one CannotReadFile
\* error with the path and the message, and scans nothing.
C10_ErrorsDoNotStopWalk ==
    /\ [][(calls' = calls + 1 /\ ~abortScan)
             => (last'.ret = TRUE /\ walk = "Walking" /\ walk' = "Walking")]_vars
    /\ [][(calls' = calls + 1 /\ last'.kind = "error")
             => /\ db' = db
                /\ progress' = progress
                /\ context' = [context EXCEPT !.stats.errors =
                                  Append(@, ScanError(last'.path, "CannotReadFile", "ec"))]]_vars

\* after a walker error and a file without audio stream the walk still goes on
C10_Witness ==
    /\ calls = 2
    /\ walk = "Walking"
    /\ Len(context.stats.errors) = 2
    /\ context.stats.errors[1].error = "CannotReadFile"
    /\ context.stats.errors[1].message = "ec"
    /\ context.stats.errors[2].error = "NoAudioTrack"
    /\ last.ret = TRUE

\* the scanAudioFile call of this step skipped the file
SkippedFile == last'.outcome \in {"skipUnreadable", "skipUnchanged"}

\* C11 as claimed.  The progress callback is invoked once after each file
\* that is processed and not after a skipped file (unchanged, or last-write
\* time unreadable); processedElems counts only the files not skipped.
C11_ProgressOnlyProcessed ==
    [][ScanStep
          => LET n == IF SkippedFile THEN 0 ELSE 1
             IN  /\ progress' = progress + n
                 /\ context'.currentStepStats.processedElems
                       = context.currentStepStats.processedElems + n]_vars

\* the file of this step goes through the upsert: it reaches the validity
\* gate with an audio stream and a duration
SuccessfulUpsert ==
    /\ C6_ReachesGate
    /\ last'.trackInfo.audioStreams # 0
    /\ last'.trackInfo.duration # 0

\* the identities of a set of Tracks
IdsOf(trks) == {t.id : t \in trks}

\* C12 Track path uniqueness and upsert accounting: at most one Track is
\* cataloged per path; an upsert at a path without Track creates one Track of
\* a fresh identity there and counts one addition and no update; an upsert at
\* a path with a Track keeps that identity, creates none, and counts one
\* update and no addition.
C12_PathUniqueUpsert ==
    /\ [](\A file \in Paths : Cardinality(TracksAt(db, file)) <= 1)
    /\ [][SuccessfulUpsert
             => LET old == TracksAt(db, last'.path)
                    new == TracksAt(db', last'.path)
                IN  IF old = {}
                    THEN /\ Cardinality(new) = 1
                         /\ IdsOf(new) \cap IdsOf(db.tracks) = {}
                         /\ IdsOf(db'.tracks) = IdsOf(db.tracks) \cup IdsOf(new)
                         /\ context'.stats.additions = context.stats.additions + 1
                         /\ context'.stats.updates = context.stats.updates
                    ELSE /\ IdsOf(new) = IdsOf(old)
                         /\ IdsOf(db'.tracks) = IdsOf(db.tracks)
                         /\ context'.stats.additions = context.stats.additions
                         /\ context'.stats.updates = context.stats.updates + 1]_vars

\* a Track was created by one scan of its path and reused by the next
C12_Witness ==
    /\ calls = 2
    /\ last.outcome = "updated"
    /\ context.stats.additions = 1 /\ context.stats.updates = 1
    /\ Cardinality(db.tracks) = 1
    /\ TracksAt(db, last.path) = db.tracks

\* the scanAudioFile call of this step gets to its unique transaction: the
\* file is readable, not skipped by change detection, and parses
ReachesTransaction ==
    /\ ScanStep
    /\ last'.lwtOk /\ last'.parsed
    /\ context.forceScan
       \/ ~\E t \in TracksAt(db, last'.path) :
              /\ t.lastWriteTime = last'.lastWriteTime
              /\ t.scanVersion = settings.scanVersion

\* the Tracks that carry the recording MBID parsed in this step
Holders == {t \in db.tracks : t.recordingMBID = last'.trackInfo.recordingMBID}

\* C13 Duplicate handling and ordering.  With the policy on, a file whose
\* parsed recording MBID is carried by a Track at another path is abandoned:
\* the Track at the scanned path, if any, is removed and counted as a
\* deletion, every other Track and all Artists, Releases and Clusters stay
\* as they are, and no error is recorded, even when the file has no audio
\* stream or no duration.  A Track that is the only holder of the MBID is
\* not a duplicate of itself: re-scanning its path keeps it and counts an
\* update.
C13_DuplicateAbandoned ==
    /\ [][(/\ ReachesTransaction
           /\ settings.skipDuplicateRecordingMBID
           /\ last'.trackInfo.recordingMBID # None
           /\ \E t \in Holders : t.path # last'.path)
          => LET old == TracksAt(db, last'.path)
             IN  /\ db' = [db EXCEPT !.tracks = @ \ old]
                 /\ context'.stats =
                       [context.stats EXCEPT
                           !.scans = @ + 1,
                           !.deletions = @ + Cardinality(old)]]_vars
    /\ [][(/\ ReachesTransaction
           /\ settings.skipDuplicateRecordingMBID
           /\ last'.trackInfo.recordingMBID # None
           /\ Holders # {}
           /\ \A t \in Holders : t.path = last'.path
           /\ last'.trackInfo.audioStreams # 0
           /\ last'.trackInfo.duration # 0)
          => /\ IdsOf(TracksAt(db', last'.path)) = IdsOf(Holders)
             /\ context'.stats.deletions = context.stats.deletions
             /\ context'.stats.updates = context.stats.updates + 1]_vars

\* a Track cataloged without recording MBID was re-scanned as a duplicate of
\* the Track at the other path, with neither audio stream nor duration: it
\* is removed and no error is recorded
C13_Witness ==
    /\ calls = 3
    /\ last.outcome = "duplicate"
    /\ last.trackInfo.audioStreams = 0 /\ last.trackInfo.duration = 0
    /\ context.stats.additions = 2 /\ context.stats.deletions = 1
    /\ context.stats.errors = << >>
    /\ Cardinality(db.tracks) = 1
    /\ TracksAt(db, last.path) = {}

\* the positions of scanAudioFile before the parser is called
BeforeParsePcs == {"lwt", "shared", "detect"}

\* C14 Extraction failure leaves the catalog unchanged.  Up to the call of
\* the parser scanAudioFile changes neither the catalog nor the context;
\* when the parser returns no result, the call appends one CannotParseFile
\* error for the path to the error list, changes no counter and nothing in
\* the catalog, and goes back to the callback without a unique transaction:
\* none is open for the thread and none is opened for this file.
C14_ParseFailureNoMutation ==
    /\ [][\A w \in Workers :
            (/\ workers[w].pc \in BeforeParsePcs
             /\ workers'[w].pc \in BeforeParsePcs \cup {"parse"}
             /\ workers'[w] # workers[w])
               => (workers'[w].context = workers[w].context /\ db' = db)]_vars
    /\ [][\A w \in Workers :
            (workers[w].pc = "parse" /\ workers'[w].pc # "unique"
                /\ workers'[w] # workers[w])
               => /\ workers'[w].pc = "report"
                  /\ workers'[w].context =
                        AddError(workers[w].context,
                                 ScanError(workers[w].file, "CannotParseFile", ""))
                  /\ db' = db
                  /\ lock' = lock]_vars
    /\ [](\A w \in Workers :
            (/\ workers[w].pc \in {"parse", "report"}
             /\ workers[w].outcome \in {"none", "parseError"})
               => (lock.writer # w /\ workers[w].txn = EmptyDb))

\* the re-scan of a cataloged file did not parse: its Track is still there,
\* the thread's only error is the parse error, and its counters are those of
\* the first scan
C14_Witness ==
    \E w \in Workers :
       /\ workers[w].pc = "report"
       /\ workers[w].outcome = "parseError"
       /\ TrackAt(db, workers[w].file) # 0
       /\ workers[w].context.stats =
             [EmptyStats EXCEPT
                 !.scans = 1, !.additions = 1,
                 !.errors = << ScanError(workers[w].file, "CannotParseFile", "") >>]

\* the credits of one role, in file order, without the records that have
\* neither name nor MBID
RoleCredits(artistsInfo, type, subType) ==
    LET named == SelectSeq(artistsInfo,
                           LAMBDA a : a.name # "" \/ a.musicBrainzArtistID # None)
    IN  [k \in 1..Len(named) |->
            [info |-> named[k], type |-> type, subType |-> subType]]

RECURSIVE PerformerCredits(_, _)
\* the credits of the performer roles from the k-th on
PerformerCredits(performerArtists, k) ==
    IF k > Len(performerArtists) THEN << >>
    ELSE RoleCredits(performerArtists[k].artists, "Performer",
                     performerArtists[k].role)
         \o PerformerCredits(performerArtists, k + 1)

\* every credit of a parsed record, in the order of the claim
Credits(ti) ==
    RoleCredits(ti.artists, "Artist", "")
    \o RoleCredits(ti.albumArtists, "ReleaseArtist", "")
    \o RoleCredits(ti.conductorArtists, "Conductor", "")
    \o RoleCredits(ti.composerArtists, "Composer", "")
    \o RoleCredits(ti.lyricistArtists, "Lyricist", "")
    \o RoleCredits(ti.mixerArtists, "Mixer", "")
    \o PerformerCredits(ti.performerArtists, 1)
    \o RoleCredits(ti.producerArtists, "Producer", "")
    \o RoleCredits(ti.remixerArtists, "Remixer", "")

\* the link is the one of the credit: same role, same performer role, and an
\* Artist of the catalog that carries the credit's MBID, or its name when it
\* has none
LinkOfCredit(arts, link, credit) ==
    /\ link.type = credit.type
    /\ link.subType = credit.subType
    /\ link.artist \in 1..Len(arts)
    /\ IF credit.info.musicBrainzArtistID # None
       THEN arts[link.artist].mbid = credit.info.musicBrainzArtistID
       ELSE arts[link.artist].name = credit.info.name

\* C15 ArtistLinks are rebuilt from scratch: after an upsert the links of the
\* Track are, one for one and in the order Artist, ReleaseArtist, Conductor,
\* Composer, Lyricist, Mixer, Performer (with its role), Producer, Remixer,
\* those of the credits of the record just parsed, whatever links the Track
\* had before; a credit with neither name nor MBID gives no link, and no
\* Artist without name and MBID is ever cataloged.
C15_LinksRebuilt ==
    /\ [](\A k \in 1..Len(db.artists) :
            db.artists[k].name # "" \/ db.artists[k].mbid # None)
    /\ [][SuccessfulUpsert
             => \A t \in TracksAt(db', last'.path) :
                   LET credits == Credits(last'.trackInfo)
                   IN  /\ Len(t.artistLinks) = Len(credits)
                       /\ \A k \in 1..Len(credits) :
                             LinkOfCredit(db'.artists, t.artistLinks[k],
                                          credits[k])]_vars

\* a cataloged Track was re-scanned from the fully credited record: it has
\* the ten links of that record and no other, and the nameless composer left
\* no Artist
C15_Witness ==
    /\ calls = 2
    /\ last.outcome = "updated"
    /\ last.trackInfo = CreditsInfo
    /\ context.stats.additions = 1
    /\ Len(db.artists) = 2
    /\ \E t \in TracksAt(db, last.path) :
          /\ Len(t.artistLinks) = 10
          /\ t.artistLinks[1].type = "Artist"
          /\ t.artistLinks[4].type = "Composer"
          /\ t.artistLinks[7].subType = "vocals"
          /\ t.artistLinks[8].subType = "guitar"
          /\ t.artistLinks[10].type = "Remixer"

\* C16 Release resolution.  After an upsert of a file with an album MBID the
\* Track's release is the Release of that MBID, renamed to the album's name,
\* or a new Release with the name and the MBID when there was none; with a
\* name and no MBID it is the first same-named Release without MBID, or a new
\* Release without MBID when there was none, never an MBID-tagged one; with
\* no album, or an album with neither name nor MBID, the Track has no release
\* and no Release is created.  Nothing else changes among the Releases, and
\* no two of them share an MBID.
C16_ReleaseResolution ==
    /\ [](\A i, j \in 1..Len(db.releases) :
            (db.releases[i].mbid # None /\ db.releases[i].mbid = db.releases[j].mbid)
               => i = j)
    /\ [][SuccessfulUpsert
             => \A t \in TracksAt(db', last'.path) :
                LET album == last'.trackInfo.album
                    rels == db.releases
                    tagged == {i \in 1..Len(rels) :
                                  rels[i].mbid = album.musicBrainzAlbumID}
                    untagged == {i \in 1..Len(rels) :
                                    rels[i].name = album.name /\ rels[i].mbid = None}
                IN  IF album.present /\ album.musicBrainzAlbumID # None
                    THEN IF tagged # {}
                         THEN /\ t.release \in tagged
                              /\ db'.releases =
                                    [rels EXCEPT ![t.release].name = album.name]
                         ELSE /\ t.release = Len(rels) + 1
                              /\ db'.releases =
                                    Append(rels, [name |-> album.name,
                                                  mbid |-> album.musicBrainzAlbumID])
                    ELSE IF album.present /\ album.name # ""
                    THEN IF untagged # {}
                         THEN /\ t.release = Min(untagged)
                              /\ db'.releases = rels
                         ELSE /\ t.release = Len(rels) + 1
                              /\ db'.releases =
                                    Append(rels, [name |-> album.name, mbid |-> None])
                    ELSE /\ t.release = 0
                         /\ db'.releases = rels]_vars

\* a Track that was on the MBID-tagged Release X was re-scanned with the
\* album name X alone: it is on a second, untagged Release X
C16_Witness ==
    /\ calls = 2
    /\ last.outcome = "updated"
    /\ last.trackInfo.album = Album("X", None)
    /\ db.releases = << [name |-> "X", mbid |-> "RM1"],
                        [name |-> "X", mbid |-> None] >>
    /\ \A t \in TracksAt(db, last.path) : t.release = 2

\* the (type, name) pairs of a parsed record whose type is a ClusterType of
\* the catalog
KnownPairs(clustersNames) ==
    UNION { { << clustersNames[k].type, clustersNames[k].names[n] >> :
                 n \in 1..Len(clustersNames[k].names) } :
            k \in {i \in 1..Len(clustersNames) :
                      clustersNames[i].type \in ClusterTypes} }

\* the (type, name) pairs of the Clusters of a table
PairsOf(clus, ids) == { << clus[c].type, clus[c].name >> : c \in ids }

\* C17 Cluster resolution.  After an upsert the Clusters of the Track are
\* exactly those of the (type, name) pairs of the parsed record whose type is
\* a known ClusterType, whatever Clusters the Track had before; the Clusters
\* that were cataloged stay as they were and the new ones are one for each
\* such pair that had no Cluster.  No Cluster ever has an unknown type, and
\* no two Clusters share their (type, name).
C17_ClusterResolution ==
    /\ [](\A i, j \in 1..Len(db.clusters) :
            /\ db.clusters[i].type \in ClusterTypes
            /\ (/\ db.clusters[i].type = db.clusters[j].type
                /\ db.clusters[i].name = db.clusters[j].name) => i = j)
    /\ [][SuccessfulUpsert
             => \A t \in TracksAt(db', last'.path) :
                LET known == KnownPairs(last'.trackInfo.clusters)
                    before == PairsOf(db.clusters, 1..Len(db.clusters))
                IN  /\ t.clusters \subseteq 1..Len(db'.clusters)
                    /\ PairsOf(db'.clusters, t.clusters) = known
                    /\ Len(db'.clusters) >= Len(db.clusters)
                    /\ SubSeq(db'.clusters, 1, Len(db.clusters)) = db.clusters
                    /\ PairsOf(db'.clusters,
                               (Len(db.clusters) + 1)..Len(db'.clusters))
                          = known \ before
                    /\ Len(db'.clusters) - Len(db.clusters)
                          = Cardinality(known \ before)]_vars

\* a Track with the genre Rock was re-scanned from a record with a mood and
\* the genre Pop: the mood gave no Cluster, the Track has the Cluster Pop and
\* no longer the Cluster Rock, which stays cataloged
C17_Witness ==
    /\ calls = 2
    /\ last.outcome = "updated"
    /\ Len(last.trackInfo.clusters) = 2
    /\ db.clusters = << [type |-> "genre", name |-> "Rock"],
                        [type |-> "genre", name |-> "Pop"] >>
    /\ \A t \in TracksAt(db, last.path) : t.clusters = {2}

\* a record with the genres Pop and Rock was scanned when Rock was cataloged:
\* Rock is the Cluster there was and Pop alone is new
C17_Reuses ==
    /\ calls = 2
    /\ Len(db.clusters) = 2
    /\ db.clusters[1].name = "Rock"
    /\ \E t \in TracksAt(db, last.path) : t.clusters = {1, 2}

\* no two Artists carry the same MBID, and no two Artists without MBID the
\* same name
DistinctArtists(arts) ==
    \A i, j \in 1..Len(arts) :
       (/\ arts[i].mbid = arts[j].mbid
        /\ (arts[i].mbid = None => arts[i].name = arts[j].name)) => i = j

\* the same for Releases
DistinctReleases(rels) ==
    \A i, j \in 1..Len(rels) :
       (/\ rels[i].mbid = rels[j].mbid
        /\ (rels[i].mbid = None => rels[i].name = rels[j].name)) => i = j

\* thread w has created an Artist or a Release that it has not committed yet,
\* and thread v, which parsed the same credits from another file, asks for
\* its unique transaction
Racing(w, v) ==
    /\ w # v
    /\ workers[w].pc \in WritePcs
    /\ (Len(workers[w].txn.artists) > Len(db.artists)
        \/ Len(workers[w].txn.releases) > Len(db.releases))
    /\ workers[v].pc = "unique"
    /\ workers[v].trackInfo = workers[w].trackInfo
    /\ workers[v].file # workers[w].file

C18_Waits ==
    \E w, v \in Workers : Racing(w, v) /\ ~CanWrite(lock)

\* SpecConc with threads that keep running and a transaction engine that
\* hands a transaction to a thread that waits for it once it can: a step of
\* the callback of w that stays possible is eventually taken
SpecConcFair ==
    SpecConc /\ \A w \in Workers : WF_vars(InFlightStep(w))

\* thread w is inside scanAudioFile
ScanPcs == {"lwt", "shared", "detect", "parse", "unique"} \cup WritePcs

\* thread w holds a transaction
Holds(w) == w \in lock.readers \/ lock.writer = w

\* C19 No indefinite blocking.  A thread holds its shared transaction in the
\* change-detection block alone and its unique transaction from the
\* reconciliation on alone, never both, and holds none while it asks for
\* one; a thread that waits for a transaction waits for a thread that holds
\* one and can take its next step, so the threads never all wait; and with
\* threads that keep running, every scanAudioFile that was started returns.
C19_NoIndefiniteBlocking ==
    /\ [](\A w \in Workers :
            /\ w \in lock.readers <=> workers[w].pc = "detect"
            /\ lock.writer = w <=> workers[w].pc \in WritePcs
            /\ ~(w \in lock.readers /\ lock.writer = w)
            /\ workers[w].pc \in {"shared", "unique"} => ~Holds(w))
    /\ [](\A w \in Workers :
            Waiting(w) => \E v \in Workers \ {w} :
                             Holds(v) /\ ~Waiting(v) /\ ENABLED InFlightStep(v))
    /\ \A w \in Workers :
          (workers[w].pc \in ScanPcs) ~> (workers[w].pc \notin ScanPcs)

\* a thread that has released its shared transaction waits for the unique
\* one while the other thread is in its change-detection block
C19_Witness ==
    \E w, v \in Workers :
       /\ workers[w].pc = "unique"
       /\ ~CanWrite(lock)
       /\ lock.readers = {v}
       /\ lock.writer = None
       /\ workers[v].pc = "detect"

\* the number of CannotParseFile errors of an error list
ParseErrors(errors) ==
    Cardinality({k \in 1..Len(errors) : errors[k].error = "CannotParseFile"})

\* the counters of the statistics, without the error list
Counters(stats) ==
    << stats.skips, stats.scans, stats.additions, stats.updates, stats.deletions >>

\* C20 The statistics are consistent with the catalog.  From an empty catalog
\* and zeroed statistics, after any sequence of scanAudioFile calls there are
\* additions - deletions Tracks, additions + updates is at most scans, and
\* skips, parse errors and scans add up to the number of calls.  Each call is
\* exactly one of: a skip (skips + 1, nothing else), a parse failure (one
\* CannotParseFile error, no counter), a scan (scans + 1, no skip, no
\* CannotParseFile error); deletions grows by the number of Tracks the call
\* removed and additions by the number of Tracks it created.
C20_StatsConsistent ==
    /\ [](/\ Cardinality(db.tracks)
               = context.stats.additions - context.stats.deletions
          /\ context.stats.additions + context.stats.updates <= context.stats.scans
          /\ context.stats.skips + context.stats.scans
               + ParseErrors(context.stats.errors) = calls)
    /\ [][calls' = calls + 1
             => LET s == context.stats
                    t == context'.stats
                    skip == /\ Counters(t) = Counters([s EXCEPT !.skips = @ + 1])
                            /\ t.errors = s.errors
                            /\ db' = db
                    parseFailure ==
                            /\ Counters(t) = Counters(s)
                            /\ t.errors = Append(s.errors,
                                  ScanError(last'.path, "CannotParseFile", ""))
                            /\ db' = db
                    scan == /\ t.scans = s.scans + 1
                            /\ t.skips = s.skips
                            /\ ParseErrors(t.errors) = ParseErrors(s.errors)
                IN  /\ skip \/ parseFailure \/ scan
                    /\ ~(skip /\ parseFailure) /\ ~(skip /\ scan)
                    /\ ~(parseFailure /\ scan)
                    /\ t.deletions - s.deletions
                          = Cardinality(IdsOf(db.tracks) \ IdsOf(db'.tracks))
                    /\ t.additions - s.additions
                          = Cardinality(IdsOf(db'.tracks) \ IdsOf(db.tracks))
                    /\ t.updates - s.updates \in {0, 1}]_vars

\* three calls, one of each kind: a file was cataloged, the next call was
\* skipped because the last-write time could not be read, and the third did
\* not parse
C20_Witness ==
    /\ calls = 3
    /\ Counters(context.stats) = << 1, 1, 1, 0, 0 >>
    /\ ParseErrors(context.stats.errors) = 1
    /\ Cardinality(db.tracks) = 1

\* a cataloged Track was removed by a later scan of its file
C20_Removed ==
    /\ context.stats.deletions = 1
    /\ context.stats.additions = 1
    /\ db.tracks = {}

=============================================================================
